---- MODULE Spec2Model ----
(***************************************************************************)
(* A model of the claims dashboard: report.py (loading the claim table,    *)
(* deriving age and age bins, the error filter, the distributions) and     *)
(* dash_helpers.py (top-3 age groups, the two low-frequency-filtered pie   *)
(* chart distributions).                                                   *)
(*                                                                         *)
(* A claim table (pandas DataFrame) is a sequence of rows; a row is a      *)
(* record whose fields are the columns:                                    *)
(*   dob       "Születési dátum"      <<h>>: the birth instant in hours on *)
(*                                    the clock that `now` reads, <<>>: NaT*)
(*   accounted "Elszámolt érték"      integer                              *)
(*   reported  "Jelentett érték"      integer                              *)
(*   msg       "Hibaüzenetek"         string                               *)
(*   bno       "Indikáló BNO kód"     code string or NaN                   *)
(*   oeno      "Beavatkozás OENO kód" code string or NaN                   *)
(*   age       "Életkor"              integer, added by add_age_column     *)
(*   age_bin   "Életkor csoport"      categorical code (index into the     *)
(*                                    categories, from 0; -1 is NaN),      *)
(*                                    added by add_age_bins                *)
(* A dict is a sequence of <<key, value>> pairs in insertion order.        *)
(***************************************************************************)
EXTENDS Integers, Sequences, FiniteSets, TLC

VARIABLES
    pc,                          \* the step the run is at
    now,                         \* datetime.now(), in hours
    files,                       \* data/ef/*.xls: a sequence of tables
    bin_size,                    \* add_age_bins' bin_size argument
    codes,                       \* the code lookup passed to the pie charts
    ef_df,                       \* the claim table
    categories,                  \* the categories (labels) of the age_bin column
    error_df,                    \* get_error_df's result
    age_group_distribution,      \* display_age_distribution_chart's local
    top_ages,                    \* display_age_distribution_chart's local
    bno_distribution,            \* display_bno_distribution_chart's local
    filtered_bno_distribution,   \* display_bno_distribution_chart's local
    oeno_distribution,           \* display_oeno_distribution_chart's local
    filtered_oeno_distribution,  \* display_oeno_distribution_chart's local
    raised                       \* the exception that ended the run, or "none"

vars == <<pc, now, files, bin_size, codes, ef_df, categories, error_df,
          age_group_distribution, top_ages, bno_distribution,
          filtered_bno_distribution, oeno_distribution,
          filtered_oeno_distribution, raised>>

outputs == <<error_df, age_group_distribution, top_ages, bno_distribution,
             filtered_bno_distribution, oeno_distribution,
             filtered_oeno_distribution>>

(***************************************************************************)
(* Bounds of the model.                                                    *)
(***************************************************************************)
MaxRows == 2          \* rows of a table of the report family
MaxBinRows == 2       \* rows of a table of the binning family
MaxAge == 7           \* largest age of the binning family
MaxBinSize == 4       \* largest bin width of the binning family
MaxSmall == 2         \* largest count of a rare code in the pie family

(***************************************************************************)
(* Program constants.                                                      *)
(***************************************************************************)
DefaultBinSize == 5
TopN == 3

NaN == "NaN"
NaT == <<>>

\* Strings are ordered as Python orders them; the model's codes, names and
\* messages are listed here in that order.
StringOrder == <<"A", "B", "C", "N", "e1", "e2">>

StringRank(s) == CHOOSE i \in 1..Len(StringOrder) : StringOrder[i] = s

Codes == {"A", "B", "C"}
Names == {"B", "N"}

RECURSIVE SumSeq(_)
SumSeq(s) == IF s = <<>> THEN 0 ELSE Head(s) + SumSeq(Tail(s))

RECURSIVE Concat(_)
Concat(ss) == IF ss = <<>> THEN <<>> ELSE Head(ss) \o Concat(Tail(ss))

Permutation(n) == {p \in [1..n -> 1..n] : \A i, j \in 1..n : p[i] = p[j] => i = j}

Reorder(s, p) == [i \in 1..Len(s) |-> s[p[i]]]

\* dict helpers
Keys(d) == [i \in 1..Len(d) |-> d[i][1]]
Values(d) == [i \in 1..Len(d) |-> d[i][2]]
HasKey(d, k) == \E i \in 1..Len(d) : d[i][1] = k
Get(d, k) == d[CHOOSE i \in 1..Len(d) : d[i][1] = k][2]
\* d[k] = v: an existing key keeps its place and takes the new value
SetItem(d, k, v) ==
    IF HasKey(d, k)
    THEN [i \in 1..Len(d) |-> IF d[i][1] = k THEN <<k, v>> ELSE d[i]]
    ELSE Append(d, <<k, v>>)

(***************************************************************************)
(* report.py                                                               *)
(***************************************************************************)

\* read_ef_data: the files' tables concatenated in the order glob yields them
read_ef_data(fs, order) == Concat(Reorder(fs, order))

\* Timedelta.days: whole days, rounded towards minus infinity
Days(td) == td \div 24

\* rounding towards minus infinity
AsTypeIntMutant(num, den) == num \div den

\* float.astype(int) of num/den (den > 0): rounds towards zero
AsTypeInt(num, den) == IF num >= 0 THEN num \div den ELSE -((-num) \div den)

\* ((now - dob).days / 365.25).astype(int);  365.25 = 1461/4
AgeOf(t, dob) == AsTypeInt(Days(t - dob) * 4, 1461)

HasNaT(df) == \E i \in 1..Len(df) : df[i].dob = NaT

add_age_column(df, t) ==
    [i \in 1..Len(df) |-> [age |-> AgeOf(t, df[i].dob[1])] @@ df[i]]

SeqMin(s) ==
    LET S == {s[i] : i \in 1..Len(s)} IN CHOOSE m \in S : \A x \in S : m <= x
SeqMax(s) ==
    LET S == {s[i] : i \in 1..Len(s)} IN CHOOSE m \in S : \A x \in S : m >= x

Ages(df) == [i \in 1..Len(df) |-> df[i].age]

\* the first row's age in place of the youngest
StartBinMutant(df, w) == (Ages(df)[1] \div w) * w

\* start_bin, end_bin (Python's // is floor division, as \div is)
StartBin(df, w) == (SeqMin(Ages(df)) \div w) * w
EndBin(df, w) == ((SeqMax(Ages(df)) \div w) + 1) * w

\* list(range(start_bin, end_bin + 1, bin_size))
Bins(df, w) ==
    LET start_bin == StartBin(df, w)
        end_bin == EndBin(df, w)
    IN  [k \in 1..((end_bin - start_bin) \div w + 1) |-> start_bin + (k - 1) * w]

\* f"{b}-{b + bin_size - 1}": a label is the pair of numbers it prints
Label(b, w) == [lo |-> b, hi |-> b + w - 1]

Labels(bins, w) == [k \in 1..(Len(bins) - 1) |-> Label(bins[k], w)]

\* numpy searchsorted(bins, x, side="left"): the number of edges below x
SearchSortedLeft(bins, x) == Cardinality({k \in 1..Len(bins) : bins[k] < x})

\* pd.cut without include_lowest
IncludeLowestMutant(bins, x, ids) == ids

\* pd.cut's include_lowest=True: ids[x == bins[0]] = 1
IncludeLowest(bins, x, ids) == IF x = bins[1] THEN 1 ELSE ids

\* pd.cut(x, bins, right=True, include_lowest=True): the categorical code of
\* x, which is -1 (NaN) for an x outside the edges
Cut(bins, x) ==
    LET ids == IncludeLowest(bins, x, SearchSortedLeft(bins, x))
    IN  IF ids = 0 \/ ids = Len(bins) THEN -1 ELSE ids - 1

add_age_bins(df, w) ==
    LET bins == Bins(df, w)
    IN  [i \in 1..Len(df) |-> [age_bin |-> Cut(bins, df[i].age)] @@ df[i]]

\* the superseded filter: the accounted amount alone
IsErrorMutant(r) == r.accounted = 0

\* the rows get_error_df keeps
IsError(r) == r.accounted = 0 /\ r.reported # 0

SortedByMsg(df) ==
    \A i \in 1..(Len(df) - 1) : StringRank(df[i].msg) <= StringRank(df[i + 1].msg)

\* get_error_df: the kept rows sorted by message; sort_values' default sort is
\* not stable, so rows with equal messages come in any order
get_error_df(df) ==
    LET errors == SelectSeq(df, IsError)
    IN  {s \in {Reorder(errors, p) : p \in Permutation(Len(errors))} : SortedByMsg(s)}

CountOf(df, col, v) == Cardinality({i \in 1..Len(df) : df[i][col] = v})

\* value_counts(dropna=False)
DropNaMutant(df, col, keys) == keys

\* value_counts' dropna=True
DropNa(df, col, keys) == SelectSeq(keys, LAMBDA k : k # NaN)

\* value_counts().sort_index() of a string column: the values present, NaN
\* dropped, ascending
ValueCountsSorted(df, col) ==
    LET present == SelectSeq(StringOrder \o <<NaN>>, LAMBDA k : CountOf(df, col, k) > 0)
        keys == DropNa(df, col, present)
    IN  [i \in 1..Len(keys) |-> <<keys[i], CountOf(df, col, keys[i])>>]

\* value_counts().sort_index() of the categorical age_bin column: every
\* category, also one no row has, in the categories' order; the key is the label
CategoricalCountsSorted(df, cats) ==
    [k \in 1..Len(cats) |-> <<cats[k], CountOf(df, "age_bin", k - 1)>>]

get_distribution(df, col, cats) ==
    IF col = "age_bin" THEN CategoricalCountsSorted(df, cats)
    ELSE ValueCountsSorted(df, col)

(***************************************************************************)
(* dash_helpers.py                                                         *)
(***************************************************************************)

\* a sort that puts an item before the earlier items of its count
ComesBeforeMutant(y, x) == y[2] > x[2]

\* sorted(..., key=count, reverse=True) is stable: an item stays behind the
\* earlier items whose count is at least its own
ComesBefore(y, x) == y[2] >= x[2]

InsertByCount(s, x) ==
    LET k == Cardinality({i \in 1..Len(s) : ComesBefore(s[i], x)})
    IN  SubSeq(s, 1, k) \o <<x>> \o SubSeq(s, k + 1, Len(s))

RECURSIVE SortedByCountDesc(_)
SortedByCountDesc(d) ==
    IF d = <<>> THEN <<>>
    ELSE InsertByCount(SortedByCountDesc(SubSeq(d, 1, Len(d) - 1)), d[Len(d)])

\* sorted(age_group_distribution.items(), key=lambda x: x[1], reverse=True)[:3]
TopAges(d) ==
    LET s == SortedByCountDesc(d)
    IN  SubSeq(s, 1, IF Len(s) < TopN THEN Len(s) ELSE TopN)

\* round(x, 0) of x = t/100: to the nearest whole number, a tie to the even one
\* (t * 0.01 is exactly the tie k + 0.5 in floating point for every t of the model)
RoundPercent(t) ==
    LET q == t \div 100
        r == t % 100
    IN  IF r < 50 THEN q
        ELSE IF r > 50 THEN q + 1
        ELSE IF q % 2 = 0 THEN q ELSE q + 1

\* int(round(sum(distribution.values()) * 0.01, 0))
MinCount(d) == RoundPercent(SumSeq(Values(d)))

\* v >= min_count
SurvivesMutant(v, min_count) == v >= min_count

\* the comprehension's / loop's condition: v > min_count
Survives(v, min_count) == v > min_count

Kept(d) ==
    LET min_count == MinCount(d)
    IN  SelectSeq(d, LAMBDA kv : Survives(kv[2], min_count))

\* {bno_codes[k]: v for k, v in ... if v > min_count} raises KeyError at the
\* first kept code the lookup lacks
BnoKeyError(d, lookup) ==
    LET kept == Kept(d) IN \E i \in 1..Len(kept) : kept[i][1] \notin DOMAIN lookup

RECURSIVE TranslateBno(_, _)
TranslateBno(kept, lookup) ==
    IF kept = <<>> THEN <<>>
    ELSE LET kv == kept[Len(kept)]
         IN  SetItem(TranslateBno(SubSeq(kept, 1, Len(kept) - 1), lookup),
                     lookup[kv[1]], kv[2])

\* try: filtered[oeno_codes[k]] = v  except KeyError: filtered[k] = v
RECURSIVE TranslateOeno(_, _)
TranslateOeno(kept, lookup) ==
    IF kept = <<>> THEN <<>>
    ELSE LET kv == kept[Len(kept)]
             key == IF kv[1] \in DOMAIN lookup THEN lookup[kv[1]] ELSE kv[1]
         IN  SetItem(TranslateOeno(SubSeq(kept, 1, Len(kept) - 1), lookup),
                     key, kv[2])

(***************************************************************************)
(* The run: get_report's three steps, then one of the report's consumers.  *)
(***************************************************************************)

ReadEfData ==
    /\ pc = "start"
    /\ \E order \in Permutation(Len(files)) : ef_df' = read_ef_data(files, order)
    /\ pc' = "read"
    /\ UNCHANGED <<now, files, bin_size, codes, categories, outputs, raised>>

\* astype(int) raises ValueError on the NaN a NaT birth date gives
AddAgeColumn ==
    /\ pc = "read"
    /\ IF HasNaT(ef_df)
       THEN /\ raised' = "ValueError"
            /\ pc' = "raised"
            /\ UNCHANGED ef_df
       ELSE /\ ef_df' = add_age_column(ef_df, now)
            /\ pc' = "age"
            /\ UNCHANGED raised
    /\ UNCHANGED <<now, files, bin_size, codes, categories, outputs>>

AddAgeBins ==
    /\ pc = "age"
    /\ ef_df' = add_age_bins(ef_df, bin_size)
    /\ categories' = Labels(Bins(ef_df, bin_size), bin_size)
    /\ pc' = "report"
    /\ UNCHANGED <<now, files, bin_size, codes, outputs, raised>>

GetErrorDf ==
    /\ pc = "report"
    /\ error_df' \in get_error_df(ef_df)
    /\ pc' = "error_df"
    /\ UNCHANGED <<now, files, bin_size, codes, ef_df, categories,
                   age_group_distribution, top_ages, bno_distribution,
                   filtered_bno_distribution, oeno_distribution,
                   filtered_oeno_distribution, raised>>

DisplayAgeDistributionChart ==
    /\ pc = "report"
    /\ age_group_distribution' = get_distribution(ef_df, "age_bin", categories)
    /\ top_ages' = TopAges(age_group_distribution')
    /\ pc' = "age_chart"
    /\ UNCHANGED <<now, files, bin_size, codes, ef_df, categories, error_df,
                   bno_distribution, filtered_bno_distribution,
                   oeno_distribution, filtered_oeno_distribution, raised>>

DisplayBnoDistributionChart ==
    /\ pc = "report"
    /\ bno_distribution' = get_distribution(ef_df, "bno", categories)
    /\ IF BnoKeyError(bno_distribution', codes)
       THEN /\ raised' = "KeyError"
            /\ pc' = "raised"
            /\ UNCHANGED filtered_bno_distribution
       ELSE /\ filtered_bno_distribution' = TranslateBno(Kept(bno_distribution'), codes)
            /\ pc' = "bno_chart"
            /\ UNCHANGED raised
    /\ UNCHANGED <<now, files, bin_size, codes, ef_df, categories, error_df,
                   age_group_distribution, top_ages, oeno_distribution,
                   filtered_oeno_distribution>>

DisplayOenoDistributionChart ==
    /\ pc = "report"
    /\ oeno_distribution' = get_distribution(ef_df, "oeno", categories)
    /\ filtered_oeno_distribution' = TranslateOeno(Kept(oeno_distribution'), codes)
    /\ pc' = "oeno_chart"
    /\ UNCHANGED <<now, files, bin_size, codes, ef_df, categories, error_df,
                   age_group_distribution, top_ages, bno_distribution,
                   filtered_bno_distribution, raised>>

Next ==
    \/ ReadEfData
    \/ AddAgeColumn
    \/ AddAgeBins
    \/ GetErrorDf
    \/ DisplayAgeDistributionChart
    \/ DisplayBnoDistributionChart
    \/ DisplayOenoDistributionChart

(***************************************************************************)
(* The inputs: three families of directories of claim files.               *)
(***************************************************************************)

Row(dob, accounted, reported, msg, bno, oeno) ==
    [dob |-> dob, accounted |-> accounted, reported |-> reported, msg |-> msg,
     bno |-> bno, oeno |-> oeno]

\* the least number of days after which AgeOf gives a years
YearsToDays(a) == (a * 1461 + 3) \div 4

\* a birth instant a years before t (a < 0: after t)
Born(t, a) == IF a >= 0 THEN <<t - 24 * YearsToDays(a)>> ELSE <<t + 24 * YearsToDays(-a)>>

NowChoices == {12}

Tables(rows, n) == UNION {[1..k -> rows] : k \in 1..n}

\* the ways a table is spread over files, none of them empty
RECURSIVE Splits(_)
Splits(t) ==
    IF t = <<>> THEN {<<>>}
    ELSE UNION {{<<SubSeq(t, 1, k)>> \o s : s \in Splits(SubSeq(t, k + 1, Len(t)))} :
                    k \in 1..Len(t)}

FullLookup == [c \in Codes |-> "N"]

\* every lookup: each code is missing or has one of the names
Lookups == UNION {[D -> Names] : D \in SUBSET Codes}

\* rows that differ in the amounts and the message
AmountRows(t) ==
    {Row(Born(t, 30), a, r, m, "A", "A") : a \in {0, 100}, r \in {0, 50}, m \in {"e1", "e2"}}

\* rows that differ in the birth date: 18 years, an hour short of 20 years,
\* 20 years and 31 years ago, in 12 hours, in a year and a day, and none
ReportDobs(t) ==
    {Born(t, 18), <<Born(t, 20)[1] + 1>>, Born(t, 20), Born(t, 31),
     <<t + 12>>, <<t + 24 * 366>>, NaT}

DobRows(t) == {Row(d, 100, 100, "e1", "A", "A") : d \in ReportDobs(t)}

InitRest ==
    /\ pc = "start"
    /\ ef_df = <<>>
    /\ categories = <<>>
    /\ error_df = <<>>
    /\ age_group_distribution = <<>>
    /\ top_ages = <<>>
    /\ bno_distribution = <<>>
    /\ filtered_bno_distribution = <<>>
    /\ oeno_distribution = <<>>
    /\ filtered_oeno_distribution = <<>>
    /\ raised = "none"

\* the report family: up to MaxRows rows in any number of files, the default
\* bin width
Init ==
    /\ now \in NowChoices
    /\ \E t \in Tables(AmountRows(now) \cup DobRows(now), MaxRows) : files \in Splits(t)
    /\ bin_size = DefaultBinSize
    /\ codes = FullLookup
    /\ InitRest

\* the binning family: one file of up to MaxBinRows rows of every age from
\* -2 to MaxAge, every bin width up to MaxBinSize and the default one
InitBins ==
    /\ now \in NowChoices
    /\ \E t \in Tables({Row(Born(now, a), 100, 100, "e1", "A", "A") : a \in (0 - 2)..MaxAge},
                       MaxBinRows) : files = <<t>>
    /\ bin_size \in (1..MaxBinSize) \cup {DefaultBinSize}
    /\ codes = FullLookup
    /\ InitRest

\* n rows with code c in both code columns, born a years ago
Block(t, n, c, a) == [i \in 1..n |-> Row(Born(t, a), 100, 100, "e1", c, c)]

\* the sizes of the block of the common code
FillChoices == {0, 47, 48, 49, 98, 147, 148, 247}

\* the pie family: one file of up to MaxSmall rows of each of the codes A and
\* B, none or one row without a code and a block of rows of the code C; every
\* lookup
InitPie ==
    /\ now \in NowChoices
    /\ \E nA, nB \in 0..MaxSmall, nNaN \in 0..1, nC \in FillChoices :
          /\ nA + nB + nNaN + nC > 0
          /\ files = <<Block(now, nA, "A", 18) \o Block(now, nNaN, NaN, 24)
                       \o Block(now, nC, "C", 20) \o Block(now, nB, "B", 31)>>
    /\ bin_size = DefaultBinSize
    /\ codes \in Lookups
    /\ InitRest

Spec == Init /\ [][Next]_vars

SpecBins == InitBins /\ [][Next]_vars

SpecPie == InitPie /\ [][Next]_vars

(***************************************************************************)
(* The properties.                                                         *)
(***************************************************************************)

Rows(df) == {df[i] : i \in 1..Len(df)}

Occurrences(df, r) == Cardinality({i \in 1..Len(df) : df[i] = r})

\* C1: a record of the claim table is in get_error_df's result if and only if
\* its accounted amount is 0 and its reported amount is not 0 (and the result
\* holds records of the table only).
C1_ErrorFilter ==
    pc = "error_df" =>
        /\ \A r \in Rows(ef_df) : r \in Rows(error_df) <=> (r.accounted = 0 /\ r.reported # 0)
        /\ Rows(error_df) \subseteq Rows(ef_df)

\* a table with an unreimbursed record (kept) and a record with both amounts 0
\* (left out)
C1_Witness ==
    /\ pc = "error_df"
    /\ Len(error_df) = 1
    /\ error_df[1].reported = 50
    /\ \E r \in Rows(ef_df) : r.accounted = 0 /\ r.reported = 0

\* C9 as stated: for every birth date, also one later than now, age is
\* floor(d / 365.25), d the whole number of days from the birth date to now.
C9_FloorAge ==
    pc = "age" =>
        \A i \in 1..Len(ef_df) :
            LET d == (now - ef_df[i].dob[1]) \div 24
            IN  ef_df[i].age = (d * 4) \div 1461

\* C9 amended: age is d / 365.25 rounded towards zero: the floor for a birth
\* date that is not later than now (d >= 0), the ceiling for a later one.
C9_TruncatedAge ==
    pc = "age" =>
        \A i \in 1..Len(ef_df) :
            LET d == (now - ef_df[i].dob[1]) \div 24
                a == ef_df[i].age
            IN  IF d >= 0
                THEN a * 1461 <= d * 4 /\ d * 4 < (a + 1) * 1461
                ELSE (a - 1) * 1461 < d * 4 /\ d * 4 <= a * 1461

\* a record born 12 hours after now gets age 0 beside a record of age 19
C9_Witness ==
    /\ pc = "age"
    /\ \E i \in 1..Len(ef_df) : ef_df[i].dob[1] > now /\ ef_df[i].age = 0
    /\ \E i \in 1..Len(ef_df) : ef_df[i].age = 19

\* C5: the top-3 age groups are entries of the age-group distribution, sorted
\* by count descending, entries of equal count in ascending bin order, and at
\* most 3.
C5_TopAges ==
    pc = "age_chart" =>
        /\ Len(top_ages) <= 3
        /\ \A i \in 1..Len(top_ages) :
              \E j \in 1..Len(age_group_distribution) : top_ages[i] = age_group_distribution[j]
        /\ \A i \in 1..(Len(top_ages) - 1) :
              \/ top_ages[i][2] > top_ages[i + 1][2]
              \/ /\ top_ages[i][2] = top_ages[i + 1][2]
                 /\ top_ages[i][1].lo < top_ages[i + 1][1].lo

\* more than 3 age groups, the two most frequent of equal count
C5_Witness ==
    /\ pc = "age_chart"
    /\ Len(age_group_distribution) > 3
    /\ Len(top_ages) = 3
    /\ top_ages[1][2] = top_ages[2][2]
    /\ top_ages[2][2] > top_ages[3][2]

\* the report of the files read in the order they are listed in
ListedReport ==
    LET aged == add_age_column(Concat(files), now)
    IN  [df |-> add_age_bins(aged, bin_size),
         cats |-> Labels(Bins(aged, bin_size), bin_size)]

\* C7: whatever order the files are read in, get_distribution gives the same
\* counts in the same key order, get_error_df the same records and the top-3
\* age groups are the same as for the files read in the order listed.
C7_OrderIndependent ==
    /\ pc = "age_chart" =>
          /\ age_group_distribution =
                get_distribution(ListedReport.df, "age_bin", ListedReport.cats)
          /\ top_ages = TopAges(get_distribution(ListedReport.df, "age_bin", ListedReport.cats))
    /\ pc = "bno_chart" =>
          bno_distribution = get_distribution(ListedReport.df, "bno", ListedReport.cats)
    /\ pc = "oeno_chart" =>
          oeno_distribution = get_distribution(ListedReport.df, "oeno", ListedReport.cats)
    /\ pc = "error_df" =>
          \A s \in get_error_df(ListedReport.df) :
              \A r \in Rows(s) \cup Rows(error_df) : Occurrences(s, r) = Occurrences(error_df, r)

\* two files read in the other order than listed, the older record last
C7_Witness ==
    /\ pc = "age_chart"
    /\ Len(files) = 2
    /\ ef_df # ListedReport.df
    /\ ef_df[1].age > ef_df[2].age
    /\ Len(age_group_distribution) > 1

\* the bin edges as the claims give them
ClaimStart == (SeqMin(Ages(ef_df)) \div bin_size) * bin_size
ClaimEnd == ((SeqMax(Ages(ef_df)) \div bin_size) + 1) * bin_size

\* x lies in the k-th bin interval, (edge k, edge k+1], the first one closed
\* at its lower edge as well
InBin(x, k) ==
    /\ IF k = 1 THEN x >= ClaimStart ELSE x > ClaimStart + (k - 1) * bin_size
    /\ x <= ClaimStart + k * bin_size

\* C2: with start = floor(min_age/W)*W and end = floor(max_age/W + 1)*W there
\* is one bin per edge below end, every age of the table is assigned the one
\* bin whose interval holds it, and every point of [start, end) lies in
\* exactly one bin interval.
C2_ExactlyOneBin ==
    pc = "report" =>
        /\ Len(categories) * bin_size = ClaimEnd - ClaimStart
        /\ \A i \in 1..Len(ef_df) :
              /\ ef_df[i].age_bin # -1
              /\ {k \in 1..Len(categories) : InBin(ef_df[i].age, k)} = {ef_df[i].age_bin + 1}
        /\ \A x \in ClaimStart..(ClaimEnd - 1) :
              Cardinality({k \in 1..Len(categories) : InBin(x, k)}) = 1

\* the youngest age is the lowest edge, the oldest is an inner edge
C2_Witness ==
    /\ pc = "report"
    /\ bin_size > 1
    /\ Len(categories) > 2
    /\ \E i \in 1..Len(ef_df) : ef_df[i].age = ClaimStart /\ ef_df[i].age_bin = 0
    /\ \E i \in 1..Len(ef_df) : ef_df[i].age = ClaimStart + 2 * bin_size /\ ef_df[i].age_bin = 1

\* C8 as stated: the label "lo-hi" of every binned age a has lo <= a <= hi.
C8_LabelContainsAge ==
    pc = "report" =>
        \A i \in 1..Len(ef_df) :
            /\ ef_df[i].age_bin # -1
            /\ categories[ef_df[i].age_bin + 1].lo <= ef_df[i].age
            /\ ef_df[i].age <= categories[ef_df[i].age_bin + 1].hi

\* the categories kept by the low-frequency filter as the claims give it:
\* count c > t, t the total's hundredth rounded as Python's round does
ClaimKept(d) == SelectSeq(d, LAMBDA kv : kv[2] > RoundPercent(SumSeq(Values(d))))

\* the codes of d's kept categories that are shown under key
ShownUnder(d, key) ==
    {i \in 1..Len(ClaimKept(d)) :
        (IF ClaimKept(d)[i][1] \in DOMAIN codes THEN codes[ClaimKept(d)[i][1]]
         ELSE ClaimKept(d)[i][1]) = key}

\* the chart of distribution d shows every kept category whose code the lookup
\* lacks under the raw code, with its count when no other category shares the key
FallsBack(d, filtered) ==
    \A i \in 1..Len(ClaimKept(d)) :
        ClaimKept(d)[i][1] \notin DOMAIN codes =>
            /\ HasKey(filtered, ClaimKept(d)[i][1])
            /\ Cardinality(ShownUnder(d, ClaimKept(d)[i][1])) = 1 =>
                  Get(filtered, ClaimKept(d)[i][1]) = ClaimKept(d)[i][2]

\* C3 as stated: in both pie charts a category that passes the filter and
\* whose code the lookup lacks is shown under its raw code with its count, and
\* no error is raised.
C3_RawCodeFallback ==
    /\ raised # "KeyError"
    /\ pc = "bno_chart" => FallsBack(bno_distribution, filtered_bno_distribution)
    /\ pc = "oeno_chart" => FallsBack(oeno_distribution, filtered_oeno_distribution)

\* C4: a category passes the low-frequency filter if and only if its count c
\* exceeds t = round(T * 0.01): the charts show exactly the categories with
\* c > t, and an error of the lookup comes from such a category only.
C4_StrictThreshold ==
    /\ pc = "oeno_chart" =>
          filtered_oeno_distribution = TranslateOeno(ClaimKept(oeno_distribution), codes)
    /\ pc = "bno_chart" =>
          filtered_bno_distribution = TranslateBno(ClaimKept(bno_distribution), codes)
    /\ raised = "KeyError" =>
          \E i \in 1..Len(ClaimKept(bno_distribution)) :
              ClaimKept(bno_distribution)[i][1] \notin DOMAIN codes

\* a code whose count equals the threshold 2 (the total is 150) is dropped and
\* a code above it is shown
C4_Witness ==
    /\ pc = "oeno_chart"
    /\ SumSeq(Values(oeno_distribution)) = 150
    /\ HasKey(oeno_distribution, "A")
    /\ Get(oeno_distribution, "A") = 2
    /\ DOMAIN codes = {"C"}
    /\ Keys(filtered_oeno_distribution) = <<codes["C"]>>

\* C6: the counts of a distribution sum to the number of rows whose value in
\* the column is not null, for the age-bin column and for the code columns.
C6_CountsSum ==
    /\ pc = "age_chart" =>
          SumSeq(Values(age_group_distribution))
              = Cardinality({i \in 1..Len(ef_df) : ef_df[i].age_bin # -1})
    /\ (pc = "bno_chart" \/ raised = "KeyError") =>
          SumSeq(Values(bno_distribution))
              = Cardinality({i \in 1..Len(ef_df) : ef_df[i].bno # NaN})
    /\ pc = "oeno_chart" =>
          SumSeq(Values(oeno_distribution))
              = Cardinality({i \in 1..Len(ef_df) : ef_df[i].oeno # NaN})

\* a table with a row without a procedure code and two codes
C6_Witness ==
    /\ pc = "oeno_chart"
    /\ \E i \in 1..Len(ef_df) : ef_df[i].oeno = NaN
    /\ Len(oeno_distribution) = 2
    /\ SumSeq(Values(oeno_distribution)) = Len(ef_df) - 1

\* C10 as stated: the counts of the filtered name-to-count mapping sum to the
\* counts of the categories that passed the filter.
C10_NoCountLost ==
    /\ pc = "bno_chart" =>
          SumSeq(Values(filtered_bno_distribution)) = SumSeq(Values(ClaimKept(bno_distribution)))
    /\ pc = "oeno_chart" =>
          SumSeq(Values(filtered_oeno_distribution)) = SumSeq(Values(ClaimKept(oeno_distribution)))

====
